---- MODULE Spec2Model ----
(***************************************************************************)
(* RaiderCache decision engine (src/utils/dataLoader.ts, class             *)
(* DecisionEngine; src/utils/weaponGrouping.ts, class WeaponGrouper).      *)
(*                                                                         *)
(* Strings the code inspects character by character (ids, types,          *)
(* rarities) are sequences of one-character strings; display names and    *)
(* reason texts, which the code only copies, are plain strings.            *)
(* An optional field of a TypeScript object is a record field that is      *)
(* present or not; a Record<string, number> is a sequence of [k, q] pairs  *)
(* in Object.entries order.                                                *)
(***************************************************************************)
EXTENDS Integers, Sequences, FiniteSets, TLC

VARIABLES srcItems, items, hideoutModules, quests, projects,
          reverseRecipeIndex, lastCall, appUserProgress, allItems

vars == <<srcItems, items, hideoutModules, quests, projects,
          reverseRecipeIndex, lastCall, appUserProgress, allItems>>

(***************************************************************************)
(* Bounds of the model.                                                    *)
(***************************************************************************)
MaxHideoutLevel == 3

(***************************************************************************)
(* Character strings.                                                      *)
(***************************************************************************)
ASSORTED_SEEDS == <<"a", "s", "s", "o", "r", "t", "e", "d", "_", "s", "e", "e", "d", "s">>
RIFLE_III == <<"r", "i", "f", "l", "e", "_", "i", "i", "i">>
RIFLE_IV_UPPER == <<"r", "i", "f", "l", "e", "_", "I", "V">>
RIFLE_IIII == <<"r", "i", "f", "l", "e", "_", "i", "i", "i", "i">>
RIFLE_XX == <<"r", "i", "f", "l", "e", "_", "x", "x">>
WIRE == <<"w", "i", "r", "e">>
METAL == <<"m", "e", "t", "a", "l">>
GEAR == <<"g", "e", "a", "r">>
JUNK == <<"j", "u", "n", "k">>
GHOST == <<"g", "h", "o", "s", "t">>
REFINEMENT_1 == <<"r", "e", "f", "i", "n", "e", "m", "e", "n", "t", "-", "1">>
BLUEPRINT == <<"B", "l", "u", "e", "p", "r", "i", "n", "t">>
WEAPON == <<"W", "e", "a", "p", "o", "n">>
AMMUNITION == <<"A", "m", "m", "u", "n", "i", "t", "i", "o", "n">>
QUICK_USE == <<"Q", "u", "i", "c", "k", " ", "U", "s", "e">>
KEY == <<"K", "e", "y">>
TRINKET == <<"T", "r", "i", "n", "k", "e", "t">>
MATERIAL == <<"M", "a", "t", "e", "r", "i", "a", "l">>
KW_TRINKET == <<"t", "r", "i", "n", "k", "e", "t">>
KW_MISC == <<"m", "i", "s", "c">>
KW_COLLECTIBLE == <<"c", "o", "l", "l", "e", "c", "t", "i", "b", "l", "e">>
LEGENDARY == <<"l", "e", "g", "e", "n", "d", "a", "r", "y">>
LEGENDARY_CAP == <<"L", "e", "g", "e", "n", "d", "a", "r", "y">>
RARE == <<"r", "a", "r", "e">>
RARE_CAP == <<"R", "a", "r", "e">>
EPIC == <<"e", "p", "i", "c">>
COMMON == <<"c", "o", "m", "m", "o", "n">>
UPPER == <<"A", "B", "C", "D", "E", "F", "G", "H", "I", "J", "K", "L", "M", "N", "O", "P", "Q", "R", "S", "T", "U", "V", "W", "X", "Y", "Z">>
LOWER == <<"a", "b", "c", "d", "e", "f", "g", "h", "i", "j", "k", "l", "m", "n", "o", "p", "q", "r", "s", "t", "u", "v", "w", "x", "y", "z">>

Has(r, f) == f \in DOMAIN r

\* String.prototype.toLowerCase / toUpperCase, character by character
toLowerCaseChar(c) ==
    IF \E i \in 1..26 : UPPER[i] = c
    THEN LOWER[CHOOSE i \in 1..26 : UPPER[i] = c]
    ELSE c

toUpperCaseChar(c) ==
    IF \E i \in 1..26 : LOWER[i] = c
    THEN UPPER[CHOOSE i \in 1..26 : LOWER[i] = c]
    ELSE c

toLowerCase(s) == [i \in 1..Len(s) |-> toLowerCaseChar(s[i])]

\* String.prototype.includes
includes(s, sub) ==
    \E i \in 1..(Len(s) - Len(sub) + 1) : SubSeq(s, i, i + Len(sub) - 1) = sub

\* rarity.charAt(0).toUpperCase() + rarity.slice(1)
capitalize(s) ==
    IF Len(s) = 0 THEN s
    ELSE <<toUpperCaseChar(s[1])>> \o SubSeq(s, 2, Len(s))

(***************************************************************************)
(* WeaponGrouper: ROMAN_REGEX = /^(.+?)_([ivx]+)$/i tested on the id.      *)
(* The id matches iff some "_" at position k >= 2 is followed, up to the   *)
(* end of the id, by one or more of the letters i, v, x in either case.    *)
(***************************************************************************)
ROMAN_LETTERS == {"i", "v", "x"}

\* the regular expression without its i flag: /^(.+?)_([ivx]+)$/
ROMAN_REGEX_test_CaseSensitive(id) ==
    \E k \in 2..(Len(id) - 1) :
        /\ id[k] = "_"
        /\ \A j \in (k + 1)..Len(id) : id[j] \in ROMAN_LETTERS

ROMAN_REGEX_test(id) ==
    \E k \in 2..(Len(id) - 1) :
        /\ id[k] = "_"
        /\ \A j \in (k + 1)..Len(id) : toLowerCaseChar(id[j]) \in ROMAN_LETTERS

isWeaponVariant(item) == ROMAN_REGEX_test(item.id)

ROMAN_NUMERALS ==
    << <<"I">>, <<"I", "I">>, <<"I", "I", "I">>, <<"I", "V">>, <<"V">>,
       <<"V", "I">>, <<"V", "I", "I">>, <<"V", "I", "I", "I">>, <<"I", "X">>,
       <<"X">> >>

toUpperCase(s) == [i \in 1..Len(s) |-> toUpperCaseChar(s[i])]

\* match[2] of id.match(ROMAN_REGEX): group 2 holds no "_", so it is what
\* follows the last "_" of the id
ROMAN_REGEX_group2(id) ==
    LET k == CHOOSE k \in 2..(Len(id) - 1) :
                 /\ id[k] = "_"
                 /\ \A j \in (k + 1)..Len(id) :
                       toLowerCaseChar(id[j]) \in ROMAN_LETTERS
    IN  SubSeq(id, k + 1, Len(id))

\* Array.prototype.indexOf
indexOf(arr, x) ==
    IF \E i \in 1..Len(arr) : arr[i] = x
    THEN (CHOOSE i \in 1..Len(arr) :
              arr[i] = x /\ \A j \in 1..(i - 1) : arr[j] # x) - 1
    ELSE -1

getTierNumber(id) ==
    IF ~ROMAN_REGEX_test(id) THEN 0
    ELSE LET romanNumeral == toUpperCase(ROMAN_REGEX_group2(id))
             index == indexOf(ROMAN_NUMERALS, romanNumeral)
         IN  IF index >= 0 THEN index + 1 ELSE 0

(***************************************************************************)
(* Reference data handed to the constructor: quests, projects, hideout     *)
(* modules (types/Quest.ts, types/Project.ts, HideoutModule).  The fields  *)
(* requirements, rewardItemIds, phases, requirementItemIds are optional.   *)
(***************************************************************************)
Req(id, n) == [item_id |-> id, quantity |-> n]

QuestData ==
    << [id |-> "q1", name |-> "Alpha",
        requirements |-> <<Req(WIRE, 2), Req(RIFLE_III, 1)>>,
        rewardItemIds |-> <<Req(WIRE, 5)>>],
       [id |-> "q2", name |-> "Beta",
        requirements |-> <<>>,
        rewardItemIds |-> <<Req(WIRE, 1), Req(GEAR, 1)>>],
       [id |-> "q3", name |-> "Gamma"] >>

ProjectData ==
    << [id |-> "p1", name |-> "Expedition",
        phases |-> << [phase |-> 1, requirementItemIds |-> <<Req(METAL, 5)>>],
                      [phase |-> 2],
                      [phase |-> 3, requirementItemIds |-> <<Req(METAL, 1), Req(GEAR, 2)>>] >>],
       [id |-> "p2", name |-> "Raft",
        requirements |-> <<Req(GEAR, 1)>>,
        phases |-> << [phase |-> 1, requirementItemIds |-> <<Req(GEAR, 3)>>] >>] >>

HideoutData ==
    << [id |-> "m1", name |-> "Workbench", maxLevel |-> 3,
        levels |-> << [level |-> 1, requirementItemIds |-> <<Req(JUNK, 1)>>],
                      [level |-> 2, requirementItemIds |-> <<Req(METAL, 2), Req(WIRE, 1)>>],
                      [level |-> 3, requirementItemIds |-> <<Req(METAL, 4)>>] >>],
       [id |-> "m2", name |-> "Stash", maxLevel |-> 1,
        levels |-> << [level |-> 1, requirementItemIds |-> <<>>],
                      [level |-> 2, requirementItemIds |-> <<Req(JUNK, 9)>>] >>],
       [id |-> "m3", name |-> "Shelf", maxLevel |-> 2, levels |-> <<>>] >>

(***************************************************************************)
(* Items (types/Item.ts).  rarity, recipe, recyclesInto, salvagesInto and  *)
(* crafting are optional.                                                  *)
(***************************************************************************)
Ent(id, n) == [k |-> id, q |-> n]

BaseItem(id, name, type, value) ==
    [id |-> id, name |-> name, type |-> type, value |-> value]

\* o is <<>> (field absent) or <<v>> (field present with value v)
Opt(f, o) == IF Len(o) = 0 THEN [x \in {} |-> 0] ELSE (f :> o[1])

MkItem(id, name, type, value, rar, rec, ri, si, cr) ==
    BaseItem(id, name, type, value) @@ Opt("rarity", rar) @@ Opt("recipe", rec)
      @@ Opt("recyclesInto", ri) @@ Opt("salvagesInto", si) @@ Opt("crafting", cr)

\* the item lists an engine is constructed from
cMetal  == MkItem(METAL, "Metal", MATERIAL, 30, <<COMMON>>, <<>>, <<>>, <<>>, <<>>)
cGear   == MkItem(GEAR, "Gear", MATERIAL, 50, <<>>, <<<<Ent(WIRE, 1), Ent(METAL, 2)>>>>, <<>>, <<>>, <<>>)
cRifle  == MkItem(RIFLE_III, "Rifle III", WEAPON, 400, <<RARE>>,
                  <<<<Ent(WIRE, 1), Ent(GEAR, 1)>>>>, <<>>, <<>>, <<<<Ent(GEAR, 1)>>>>)
cJunk   == MkItem(JUNK, "Junk", TRINKET, 100, <<>>, <<<<Ent(WIRE, 3)>>>>,
                  <<<<Ent(METAL, 2), Ent(GEAR, 1)>>>>, <<>>, <<>>)
cJunkB  == MkItem(JUNK, "Junk (old)", TRINKET, 1000, <<>>, <<>>, <<>>, <<>>, <<>>)
cWire   == MkItem(WIRE, "Wire", MATERIAL, 10, <<COMMON>>, <<>>, <<<<>>>>, <<>>, <<>>)
cSeeds  == MkItem(ASSORTED_SEEDS, "Assorted Seeds", MATERIAL, 100, <<LEGENDARY>>, <<>>, <<>>, <<>>, <<>>)
cRefinement == MkItem(REFINEMENT_1, "Refinement", MATERIAL, 1, <<>>, <<>>, <<>>, <<>>, <<>>)

ItemLists ==
    { <<cMetal, cGear, cRifle, cRefinement, cJunk, cWire>>,
      <<cJunk, cMetal, cJunkB, cGear>>,
      <<cJunkB, cWire, cJunk, cSeeds, cGear, cRifle>>,
      <<>> }

(***************************************************************************)
(* DecisionEngine constructor.                                             *)
(***************************************************************************)
\* a set that moves an existing key to the end (delete, then insert)
mapSetMoveToEnd(m, item) ==
    Append(SelectSeq(m, LAMBDA e : e.id # item.id), item)

\* a set that leaves an existing key with the value it has (first write wins)
mapSetKeepFirst(m, item) ==
    IF \E i \in 1..Len(m) : m[i].id = item.id THEN m ELSE Append(m, item)

\* Map.prototype.set on a Map kept as the sequence of its values in key
\* insertion order: an existing key keeps its position and takes the value
mapSet(m, item) ==
    IF \E i \in 1..Len(m) : m[i].id = item.id
    THEN [i \in 1..Len(m) |-> IF m[i].id = item.id THEN item ELSE m[i]]
    ELSE Append(m, item)

RECURSIVE newMap(_, _)
\* new Map(items.map(item => [item.id, item]))
newMap(list, m) ==
    IF Len(list) = 0 THEN m
    ELSE newMap(Tail(list), mapSet(m, Head(list)))

\* Map.prototype.get: <<>> for undefined, <<item>> otherwise
mapGet(m, id) ==
    IF \E i \in 1..Len(m) : m[i].id = id
    THEN <<m[CHOOSE i \in 1..Len(m) : m[i].id = id]>>
    ELSE <<>>

\* the keys of a Record<string, number>
keysOf(rec) == {rec[i].k : i \in 1..Len(rec)}

RECURSIVE buildReverseRecipeIndex(_)
\* recipeUtils.buildReverseRecipeIndex: for every item of the list that has a
\* recipe, in list order, the item's id is appended to the entry of each
\* ingredient of the recipe
buildReverseRecipeIndex(list) ==
    IF Len(list) = 0 THEN [x \in {} |-> <<>>]
    ELSE LET rest == buildReverseRecipeIndex(SubSeq(list, 1, Len(list) - 1))
             item == list[Len(list)]
             ings == IF Has(item, "recipe") THEN keysOf(item.recipe) ELSE {}
         IN  [x \in DOMAIN rest \cup ings |->
                 (IF x \in DOMAIN rest THEN rest[x] ELSE <<>>)
                   \o (IF x \in ings THEN <<item.id>> ELSE <<>>)]

(***************************************************************************)
(* Strings the engine builds.  A name is a display string with an optional *)
(* " (Level N)" suffix; a reason is a fixed text with the names, numbers   *)
(* and characters interpolated into it.                                    *)
(***************************************************************************)
Str(name) == [s |-> name, lvl |-> <<>>]
LevelStr(name, n) == [s |-> name, lvl |-> <<n>>]

R(text, names, nums, chars) ==
    [text |-> text, names |-> names, nums |-> nums, chars |-> chars]
T(text) == R(text, <<>>, <<>>, <<>>)

\* the outcome of a call that ends in an uncaught TypeError
Thrown == [decision |-> "TypeError", reasons |-> <<>>]

\* Array.prototype.includes on an array of ids
arrIncludes(arr, x) == \E i \in 1..Len(arr) : arr[i] = x

\* list.some(req => req.item_id === item.id)
someReq(list, id) == \E i \in 1..Len(list) : list[i].item_id = id

(***************************************************************************)
(* Dependency resolvers.                                                   *)
(***************************************************************************)
\* only the requirements of the quest are looked at, not its reward items
questRequiresOnlyRequirements(quest, item) ==
    /\ Has(quest, "requirements")
    /\ Len(quest.requirements) > 0
    /\ someReq(quest.requirements, item.id)

questRequires(quest, item) ==
    LET viaReq == /\ Has(quest, "requirements")
                  /\ Len(quest.requirements) > 0
                  /\ someReq(quest.requirements, item.id)
    IN  \/ viaReq
        \/ /\ ~viaReq
           /\ Has(quest, "rewardItemIds")
           /\ Len(quest.rewardItemIds) > 0
           /\ someReq(quest.rewardItemIds, item.id)

\* the name is pushed once for a match among the requirements and once more
\* for a match among the reward items
isUsedInActiveQuestsPushingTwice(qs, item, userProgress) ==
    LET open(quest) == ~arrIncludes(userProgress.completedQuests, quest.id)
        viaReq(quest) == /\ Has(quest, "requirements")
                         /\ someReq(quest.requirements, item.id)
        viaReward(quest) == /\ Has(quest, "rewardItemIds")
                            /\ someReq(quest.rewardItemIds, item.id)
        sel == SelectSeq(qs, LAMBDA q : open(q) /\ viaReq(q))
                 \o SelectSeq(qs, LAMBDA q : open(q) /\ viaReward(q))
        questNames == [i \in 1..Len(sel) |-> Str(sel[i].name)]
    IN  [isUsed |-> Len(questNames) > 0, questNames |-> questNames]

isUsedInActiveQuests(qs, item, userProgress) ==
    LET hit(quest) == /\ ~arrIncludes(userProgress.completedQuests, quest.id)
                      /\ questRequires(quest, item)
        sel == SelectSeq(qs, hit)
        questNames == [i \in 1..Len(sel) |-> Str(sel[i].name)]
    IN  [isUsed |-> Len(questNames) > 0, questNames |-> questNames]

\* the requirement tests without the comparison of ids: a project with any
\* requirement requires every item
projectRequiresAnyItem(project, item) ==
    LET viaReq == /\ Has(project, "requirements")
                  /\ Len(project.requirements) > 0
    IN  \/ viaReq
        \/ /\ ~viaReq
           /\ Has(project, "phases")
           /\ Len(project.phases) > 0
           /\ \E i \in 1..Len(project.phases) :
                 /\ Has(project.phases[i], "requirementItemIds")
                 /\ Len(project.phases[i].requirementItemIds) > 0

projectRequires(project, item) ==
    LET viaReq == /\ Has(project, "requirements")
                  /\ Len(project.requirements) > 0
                  /\ someReq(project.requirements, item.id)
    IN  \/ viaReq
        \/ /\ ~viaReq
           /\ Has(project, "phases")
           /\ Len(project.phases) > 0
           /\ \E i \in 1..Len(project.phases) :
                 /\ Has(project.phases[i], "requirementItemIds")
                 /\ Len(project.phases[i].requirementItemIds) > 0
                 /\ someReq(project.phases[i].requirementItemIds, item.id)

\* the phase loop without its break and with the push inside it: one name
\* per phase that requires the item, none for the legacy list
isUsedInActiveProjectsPerPhase(ps, item, userProgress) ==
    LET open(project) == ~arrIncludes(userProgress.completedProjects, project.id)
        hits(project) ==
            IF ~open(project) \/ ~Has(project, "phases") THEN <<>>
            ELSE LET sel == SelectSeq(project.phases,
                                LAMBDA ph : /\ Has(ph, "requirementItemIds")
                                            /\ someReq(ph.requirementItemIds, item.id))
                 IN  [i \in 1..Len(sel) |-> Str(project.name)]
        projectNames == IF Len(ps) = 0 THEN <<>>
                        ELSE IF Len(ps) = 1 THEN hits(ps[1])
                        ELSE hits(ps[1]) \o hits(ps[2])
    IN  [isUsed |-> Len(projectNames) > 0, projectNames |-> projectNames]

isUsedInActiveProjects(ps, item, userProgress) ==
    LET hit(project) == /\ ~arrIncludes(userProgress.completedProjects, project.id)
                        /\ projectRequires(project, item)
        sel == SelectSeq(ps, hit)
        projectNames == [i \in 1..Len(sel) |-> Str(sel[i].name)]
    IN  [isUsed |-> Len(projectNames) > 0, projectNames |-> projectNames]

\* userProgress.hideoutLevels[module.id] ?? 0
currentLevelOfOrZero(module, userProgress) ==
    IF module.id \in DOMAIN userProgress.hideoutLevels
    THEN userProgress.hideoutLevels[module.id]
    ELSE 0

\* userProgress.hideoutLevels[module.id] || 1
currentLevelOf(module, userProgress) ==
    IF /\ module.id \in DOMAIN userProgress.hideoutLevels
       /\ userProgress.hideoutLevels[module.id] # 0
    THEN userProgress.hideoutLevels[module.id]
    ELSE 1

\* the entries of a module without the `currentLevel >= module.maxLevel` test
moduleEntriesNoMaxTest(module, item, userProgress) ==
    LET currentLevel == currentLevelOf(module, userProgress)
        hit(levelData) == /\ ~(levelData.level <= currentLevel)
                          /\ Has(levelData, "requirementItemIds")
                          /\ Len(levelData.requirementItemIds) > 0
                          /\ someReq(levelData.requirementItemIds, item.id)
    IN  IF ~Has(module, "levels") \/ Len(module.levels) = 0 THEN <<>>
        ELSE LET sel == SelectSeq(module.levels, hit)
             IN  [i \in 1..Len(sel) |-> LevelStr(module.name, sel[i].level)]

\* the entries one module pushes, in the order of its level list
moduleEntries(module, item, userProgress) ==
    LET currentLevel == currentLevelOf(module, userProgress)
        hit(levelData) == /\ ~(levelData.level <= currentLevel)
                          /\ Has(levelData, "requirementItemIds")
                          /\ Len(levelData.requirementItemIds) > 0
                          /\ someReq(levelData.requirementItemIds, item.id)
    IN  IF currentLevel >= module.maxLevel THEN <<>>
        ELSE IF ~Has(module, "levels") \/ Len(module.levels) = 0 THEN <<>>
        ELSE LET sel == SelectSeq(module.levels, hit)
             IN  [i \in 1..Len(sel) |-> LevelStr(module.name, sel[i].level)]

RECURSIVE upgradeNames(_, _, _)
upgradeNames(ms, item, userProgress) ==
    IF Len(ms) = 0 THEN <<>>
    ELSE moduleEntries(Head(ms), item, userProgress)
           \o upgradeNames(Tail(ms), item, userProgress)

\* the level test turned round: the levels already built are reported, the
\* pending ones skipped
isNeededForUpgradesBuiltLevels(ms, item, userProgress) ==
    LET built(module) ==
            /\ Has(module, "levels")
            /\ \E i \in 1..Len(module.levels) :
                  /\ module.levels[i].level <= currentLevelOf(module, userProgress)
                  /\ Has(module.levels[i], "requirementItemIds")
                  /\ someReq(module.levels[i].requirementItemIds, item.id)
        sel == SelectSeq(ms, built)
        moduleNames == [i \in 1..Len(sel) |->
                           LevelStr(sel[i].name, currentLevelOf(sel[i], userProgress))]
    IN  [isNeeded |-> Len(moduleNames) > 0, moduleNames |-> moduleNames]

isNeededForUpgrades(ms, item, userProgress) ==
    LET moduleNames == upgradeNames(ms, item, userProgress)
    IN  [isNeeded |-> Len(moduleNames) > 0, moduleNames |-> moduleNames]

(***************************************************************************)
(* Value evaluators.  self is the engine: [items, hideoutModules, quests,  *)
(* projects, reverseRecipeIndex].                                          *)
(***************************************************************************)
\* item.recyclesInto || item.salvagesInto || item.crafting: an object, even
\* an empty one, is truthy; <<>> is undefined
recycleDataOf(item) ==
    IF Has(item, "recyclesInto") THEN <<item.recyclesInto>>
    ELSE IF Has(item, "salvagesInto") THEN <<item.salvagesInto>>
    ELSE IF Has(item, "crafting") THEN <<item.crafting>>
    ELSE <<>>

\* recycleData && Object.keys(recycleData).length > 0
hasRecycleData(item) ==
    LET recycleData == recycleDataOf(item)
    IN  IF Len(recycleData) = 0 THEN "false"
        ELSE IF Len(recycleData[1]) > 0 THEN "true" ELSE "false"

getItemName(item) == item.name

RECURSIVE recycleLoop(_, _, _, _)
\* the for loop of evaluateRecycleValue over Object.entries(recycleData)
recycleLoop(self, entries, materials, totalValue) ==
    IF Len(entries) = 0
    THEN [threw |-> FALSE, materials |-> materials, totalValue |-> totalValue]
    ELSE LET outputItem == mapGet(self.items, Head(entries).k)
         IN  IF Len(outputItem) = 1
             THEN recycleLoop(self, Tail(entries),
                      Append(materials, [q |-> Head(entries).q,
                                         name |-> getItemName(outputItem[1])]),
                      totalValue + outputItem[1].value * Head(entries).q)
             ELSE recycleLoop(self, Tail(entries), materials, totalValue)

\* the loop body without its `if (outputItem)` guard: reading .value of an
\* id the catalog does not have throws
evaluateRecycleValueUnguarded(self, item) ==
    LET recycleData == recycleDataOf(item)
    IN  IF Len(recycleData) = 0 \/ Len(recycleData[1]) = 0
        THEN [threw |-> FALSE, isValuable |-> FALSE, nothing |-> TRUE,
              materials |-> <<>>, estimatedValue |-> 0]
        ELSE LET res == recycleLoop(self, recycleData[1], <<>>, 0)
             IN  [threw |-> \E i \in 1..Len(recycleData[1]) :
                               Len(mapGet(self.items, recycleData[1][i].k)) = 0,
                  isValuable |-> 2 * res.totalValue > item.value,
                  nothing |-> FALSE,
                  materials |-> res.materials,
                  estimatedValue |-> res.totalValue]

evaluateRecycleValue(self, item) ==
    LET recycleData == recycleDataOf(item)
    IN  IF Len(recycleData) = 0 \/ Len(recycleData[1]) = 0
        THEN [threw |-> FALSE, isValuable |-> FALSE, nothing |-> TRUE,
              materials |-> <<>>, estimatedValue |-> 0]
        ELSE LET res == recycleLoop(self, recycleData[1], <<>>, 0)
             IN  [threw |-> res.threw,
                  \* totalValue > item.value * 0.5
                  isValuable |-> 2 * res.totalValue > item.value,
                  nothing |-> FALSE,
                  materials |-> res.materials,
                  estimatedValue |-> res.totalValue]

\* this.reverseRecipeIndex.get(item.id)?.length || 0
recipeCountOf(self, item) ==
    IF item.id \in DOMAIN self.reverseRecipeIndex
    THEN Len(self.reverseRecipeIndex[item.id])
    ELSE 0

evaluateCraftingValue(self, item) ==
    LET recipeCount == recipeCountOf(self, item)
        isRare == IF Has(item, "rarity")
                  THEN item.rarity \in {RARE, EPIC, LEGENDARY}
                  ELSE FALSE
    IN  [isValuable |-> recipeCount > 2 \/ (recipeCount > 0 /\ isRare),
         recipeCount |-> recipeCount,
         details |-> IF isRare THEN "Rare crafting material"
                     ELSE "Common crafting ingredient"]

highValueThreshold == 1000
trinketKeywords == <<KW_TRINKET, KW_MISC, KW_COLLECTIBLE>>

isHighValueTrinket(item) ==
    LET hasNoRecipe == ~Has(item, "recipe") \/ Len(item.recipe) = 0
        recycleData == recycleDataOf(item)
        hasNoRecycle == Len(recycleData) = 0 \/ Len(recycleData[1]) = 0
        isTrinket == \E i \in 1..Len(trinketKeywords) :
                        includes(toLowerCase(item.type), trinketKeywords[i])
    IN  item.value >= highValueThreshold /\ hasNoRecipe /\ hasNoRecycle /\ isTrinket

\* item.rarity.toLowerCase() === 'legendary', without the optional chaining
isLegendaryUnguarded(item) ==
    IF ~Has(item, "rarity") THEN "throw"
    ELSE IF toLowerCase(item.rarity) = LEGENDARY THEN "true" ELSE "false"

\* item.rarity === 'Legendary': the comparison without toLowerCase
isLegendaryCaseSensitive(item) ==
    IF ~Has(item, "rarity") THEN "false"
    ELSE IF item.rarity = LEGENDARY_CAP THEN "true" ELSE "false"

\* item.rarity?.toLowerCase() === 'legendary'
isLegendary(item) ==
    IF ~Has(item, "rarity") THEN "false"
    ELSE IF toLowerCase(item.rarity) = LEGENDARY THEN "true" ELSE "false"

\* item.rarity && ['rare', 'epic'].includes(item.rarity.toLowerCase())
isRareOrEpic(item) ==
    IF ~Has(item, "rarity") \/ Len(item.rarity) = 0 THEN "false"
    ELSE IF toLowerCase(item.rarity) \in {RARE, EPIC} THEN "true" ELSE "false"

(***************************************************************************)
(* The classifier.                                                         *)
(***************************************************************************)
finalizeDecision(self, item, decision) ==
    LET has == hasRecycleData(item)
    IN  IF has = "throw" THEN Thrown
        ELSE IF has = "true"
        THEN LET recycleValue == evaluateRecycleValue(self, item)
             IN  IF recycleValue.threw THEN Thrown
                 ELSE IF recycleValue.estimatedValue > item.value
                 THEN decision @@ [recycleValueExceedsItem |-> TRUE]
                 ELSE decision
        ELSE decision

Verdict(d, reasons) == [decision |-> d, reasons |-> reasons]

\* the verdict of a usage rule returned without its dependencies field
VerdictDepsOmitted(d, reasons, deps) ==
    [decision |-> d, reasons |-> reasons]

VerdictDeps(d, reasons, deps) ==
    [decision |-> d, reasons |-> reasons, dependencies |-> deps]

\* priorities 7 .. default, entered when none of the type rules matched
decideByUse(self, item, userProgress) ==
    LET questUse == isUsedInActiveQuests(self.quests, item, userProgress)
        projectUse == isUsedInActiveProjects(self.projects, item, userProgress)
        upgradeUse == isNeededForUpgrades(self.hideoutModules, item, userProgress)
        craftingValue == evaluateCraftingValue(self, item)
        has == hasRecycleData(item)
        recycleValue == evaluateRecycleValue(self, item)
        rareEpic == isRareOrEpic(item)
    IN  IF questUse.isUsed
        THEN finalizeDecision(self, item, VerdictDeps("keep",
                 <<R("Required for quest: ", questUse.questNames, <<>>, <<>>)>>,
                 questUse.questNames))
        ELSE IF projectUse.isUsed
        THEN finalizeDecision(self, item, VerdictDeps("keep",
                 <<R("Needed for project: ", projectUse.projectNames, <<>>, <<>>)>>,
                 projectUse.projectNames))
        ELSE IF upgradeUse.isNeeded
        THEN finalizeDecision(self, item, VerdictDeps("keep",
                 <<R("Required for hideout upgrade: ", upgradeUse.moduleNames, <<>>, <<>>)>>,
                 upgradeUse.moduleNames))
        ELSE IF craftingValue.isValuable
        THEN finalizeDecision(self, item, Verdict("situational",
                 <<R("Used in N crafting recipes", <<>>, <<craftingValue.recipeCount>>, <<>>),
                   T(craftingValue.details)>>))
        ELSE IF isHighValueTrinket(item)
        THEN finalizeDecision(self, item, Verdict("sell_or_recycle",
                 <<R("High value (N coins)", <<>>, <<item.value>>, <<>>),
                   T("No crafting or upgrade use")>>))
        ELSE IF has = "throw" \/ (has = "true" /\ recycleValue.threw) THEN Thrown
        ELSE IF has = "true" /\ recycleValue.isValuable
        THEN finalizeDecision(self, item, Verdict("sell_or_recycle",
                 <<R("Recycles into: ",
                     [i \in 1..Len(recycleValue.materials) |->
                         Str(recycleValue.materials[i].name)],
                     [i \in 1..Len(recycleValue.materials) |->
                         recycleValue.materials[i].q], <<>>),
                   R("Recycle value: Components (N coins) worth less than Item (N coins)",
                     <<>>, <<recycleValue.estimatedValue, item.value>>, <<>>)>>))
        ELSE IF rareEpic = "throw" THEN Thrown
        ELSE IF rareEpic = "true"
        THEN finalizeDecision(self, item, Verdict("situational",
                 <<R(" rarity", <<>>, <<>>, capitalize(item.rarity)),
                   T("May have future use - review carefully")>>))
        ELSE finalizeDecision(self, item, Verdict("sell_or_recycle",
                 <<T("No immediate use found"), T("Safe to sell or recycle")>>))

\* the Blueprint test placed before the Legendary test
getDecisionTypeFirst(self, item, userProgress) ==
    LET legendary == isLegendary(item)
    IN  IF item.id = ASSORTED_SEEDS
        THEN finalizeDecision(self, item, Verdict("keep",
                 <<T("Valuable currency item"), T("Used for trading with Celeste")>>))
        ELSE IF item.type = BLUEPRINT
        THEN finalizeDecision(self, item, Verdict("situational",
                 <<T("Blueprint - valuable for unlocking crafting recipes"),
                   T("Review carefully before selling or recycling")>>))
        ELSE IF legendary = "throw" THEN Thrown
        ELSE IF legendary = "true"
        THEN finalizeDecision(self, item, Verdict("keep",
                 <<T("Legendary rarity - extremely valuable"), T("Keep all legendaries")>>))
        ELSE IF item.type = WEAPON \/ isWeaponVariant(item)
        THEN finalizeDecision(self, item, Verdict("situational",
                 <<T("Weapon - review based on your current loadout"),
                   T("Consider tier and your play style")>>))
        ELSE IF item.type = AMMUNITION
        THEN finalizeDecision(self, item, Verdict("situational",
                 <<T("Ammunition - essential for weapons"),
                   T("Review based on your weapon loadout")>>))
        ELSE IF item.type = QUICK_USE
        THEN finalizeDecision(self, item, Verdict("situational",
                 <<T("Consumable item - grenades, healing items, etc."),
                   T("Review based on your current inventory needs")>>))
        ELSE IF item.type = KEY
        THEN finalizeDecision(self, item, Verdict("situational",
                 <<T("Key - opens locked areas and containers"),
                   T("Review based on areas you want to access")>>))
        ELSE decideByUse(self, item, userProgress)

getDecision(self, item, userProgress) ==
    LET legendary == isLegendary(item)
    IN  IF item.id = ASSORTED_SEEDS
        THEN finalizeDecision(self, item, Verdict("keep",
                 <<T("Valuable currency item"), T("Used for trading with Celeste")>>))
        ELSE IF legendary = "throw" THEN Thrown
        ELSE IF legendary = "true"
        THEN finalizeDecision(self, item, Verdict("keep",
                 <<T("Legendary rarity - extremely valuable"), T("Keep all legendaries")>>))
        ELSE IF item.type = BLUEPRINT
        THEN finalizeDecision(self, item, Verdict("situational",
                 <<T("Blueprint - valuable for unlocking crafting recipes"),
                   T("Review carefully before selling or recycling")>>))
        ELSE IF item.type = WEAPON \/ isWeaponVariant(item)
        THEN finalizeDecision(self, item, Verdict("situational",
                 <<T("Weapon - review based on your current loadout"),
                   T("Consider tier and your play style")>>))
        ELSE IF item.type = AMMUNITION
        THEN finalizeDecision(self, item, Verdict("situational",
                 <<T("Ammunition - essential for weapons"),
                   T("Review based on your weapon loadout")>>))
        ELSE IF item.type = QUICK_USE
        THEN finalizeDecision(self, item, Verdict("situational",
                 <<T("Consumable item - grenades, healing items, etc."),
                   T("Review based on your current inventory needs")>>))
        ELSE IF item.type = KEY
        THEN finalizeDecision(self, item, Verdict("situational",
                 <<T("Key - opens locked areas and containers"),
                   T("Review based on areas you want to access")>>))
        ELSE decideByUse(self, item, userProgress)

(***************************************************************************)
(* Aggregate queries.                                                      *)
(***************************************************************************)
\* { ...item, decisionData }
withDecision(item, decisionData) == ("decisionData" :> decisionData) @@ item

getItemsWithDecisions(self, userProgress) ==
    [i \in 1..Len(self.items) |->
        withDecision(self.items[i], getDecision(self, self.items[i], userProgress))]

RECURSIVE statsLoop(_, _, _, _)
\* for (const item of this.items.values()) stats[decision.decision]++
statsLoop(self, userProgress, i, stats) ==
    IF i > Len(self.items) THEN stats
    ELSE LET decision == getDecision(self, self.items[i], userProgress)
         IN  statsLoop(self, userProgress, i + 1,
                 IF decision.decision \in DOMAIN stats
                 THEN [stats EXCEPT ![decision.decision] = @ + 1]
                 ELSE stats)

\* the tally started at the second catalog entry
getDecisionStatsSkipFirst(self, userProgress) ==
    statsLoop(self, userProgress, 2,
              [keep |-> 0, sell_or_recycle |-> 0, situational |-> 0])

getDecisionStats(self, userProgress) ==
    statsLoop(self, userProgress, 1,
              [keep |-> 0, sell_or_recycle |-> 0, situational |-> 0])

getItemsUsingIngredient(self, itemId) ==
    LET itemIds == IF itemId \in DOMAIN self.reverseRecipeIndex
                   THEN self.reverseRecipeIndex[itemId] ELSE <<>>
        found == SelectSeq([i \in 1..Len(itemIds) |-> mapGet(self.items, itemIds[i])],
                           LAMBDA o : Len(o) = 1)
    IN  [i \in 1..Len(found) |-> found[i][1]]

(***************************************************************************)
(* The calls made on the engine: items and progress snapshots.             *)
(***************************************************************************)
Ids ==
    { ASSORTED_SEEDS, RIFLE_III, RIFLE_IV_UPPER, RIFLE_IIII, RIFLE_XX,
      WIRE, METAL, GEAR, JUNK }
NoMap == <<>>
SomeMap == <<<<Ent(METAL, 2), Ent(GEAR, 1)>>>>
EmptyMap == <<<<>>>>
DanglingMap == <<<<Ent(GHOST, 5), Ent(METAL, 4)>>>>

\* the head of the cascade: id, type and rarity vary
ItemsA ==
    { MkItem(id, "Thing", type, 100, rar, NoMap, NoMap, NoMap, NoMap) :
        id \in Ids,
        type \in {BLUEPRINT, WEAPON, AMMUNITION, QUICK_USE, KEY, MATERIAL},
        rar \in {<<>>, <<RARE>>, <<LEGENDARY>>, <<LEGENDARY_CAP>>} }

\* the value rules: value, recipe and the three recycle sources vary
ItemsB ==
    { MkItem(id, "Thing", type, value, rar, rec, ri, si, cr) :
        id \in {JUNK, WIRE},
        type \in {MATERIAL, TRINKET},
        value \in {100, 110, 220, 1000},
        rar \in {<<>>, <<RARE>>, <<RARE_CAP>>},
        rec \in {NoMap, <<<<Ent(WIRE, 1)>>>>},
        ri \in {NoMap, EmptyMap, SomeMap, DanglingMap},
        si \in {NoMap, SomeMap},
        cr \in {NoMap, <<<<Ent(GEAR, 1)>>>>} }

\* the usage rules: items that quests, projects and modules reference
ItemsC ==
    { MkItem(id, "Thing", type, 100, rar, NoMap, ri, NoMap, NoMap) :
        id \in {WIRE, METAL, GEAR, JUNK, RIFLE_III, ASSORTED_SEEDS},
        type \in {MATERIAL},
        rar \in {<<>>, <<EPIC>>, <<LEGENDARY>>},
        ri \in {NoMap, SomeMap} }

\* one coin under the high-value threshold
ItemsBelowThreshold ==
    { MkItem(JUNK, "Thing", type, highValueThreshold - 1, <<>>, NoMap, ri, si, NoMap) :
        type \in {MATERIAL, TRINKET},
        ri \in {NoMap, EmptyMap},
        si \in {NoMap, SomeMap} }

\* an item that no quest, project or module references
ItemsUnreferenced ==
    { MkItem(REFINEMENT_1, "Thing", MATERIAL, 100, rar, NoMap, NoMap, NoMap, NoMap) :
        rar \in {<<>>, <<EPIC>>} }

NoLevels == [x \in {} |-> 0]

Progress(cq, cp, hl) ==
    [completedQuests |-> cq, completedProjects |-> cp, hideoutLevels |-> hl]

\* hideoutLevels as stored progress can hold them: no entry, a level of the
\* Workbench from 0 ("not unlocked") up, a negative level, and levels of a
\* module id ("zz") that the engine's module list does not have
HideoutLevelMaps ==
    {NoLevels} \cup {("m1" :> l) : l \in -1..MaxHideoutLevel}
        \cup {("zz" :> 2), ("zz" :> 3) @@ ("m1" :> 2)}

ProgressAll ==
    { Progress(cq, cp, hl) :
        cq \in {<<>>, <<"q1">>, <<"q2">>, <<"q1", "q2">>},
        cp \in {<<>>, <<"p1">>, <<"p2", "p1">>},
        hl \in HideoutLevelMaps }

EmptyProgress == Progress(<<>>, <<>>, NoLevels)

ProgressFew ==
    { EmptyProgress,
      Progress(<<"q1", "q2">>, <<"p1", "p2">>, ("m1" :> MaxHideoutLevel)) }

\* the items a caller classifies again after completing a quest
ReclassifiedItems == ItemsA \cup ItemsC \cup ItemsUnreferenced

Calls ==
    ((ItemsA \cup ItemsB \cup ItemsBelowThreshold) \X ProgressFew)
        \cup ((ItemsC \cup ItemsUnreferenced) \X ProgressAll)

(***************************************************************************)
(* State machine.                                                          *)
(***************************************************************************)
this ==
    [items |-> items, hideoutModules |-> hideoutModules, quests |-> quests,
     projects |-> projects, reverseRecipeIndex |-> reverseRecipeIndex]

\* new DecisionEngine(items, hideoutModules, quests, projects)
constructor(list, ms, qs, ps) ==
    [items |-> newMap(list, <<>>), hideoutModules |-> ms, quests |-> qs,
     projects |-> ps, reverseRecipeIndex |-> buildReverseRecipeIndex(list)]

Idle == [op |-> "none"]

(***************************************************************************)
(* The App (main.ts): its progress object and its item list.  Storage, the *)
(* search index and the DOM are not modelled; the ticks of the trackers    *)
(* show what this.userProgress (appUserProgress) holds.                    *)
(***************************************************************************)
\* const itemBlacklist = ['refinement-1']
itemBlacklist == <<REFINEMENT_1>>

\* the progress of a first visit: the listed modules at level 1
DEFAULT_USER_PROGRESS == Progress(<<>>, <<>>, ("m1" :> 1) @@ ("m2" :> 1))

\* App.init: getItemsWithDecisions, then the blacklist filter
initAllItems(self, up) ==
    SelectSeq(getItemsWithDecisions(self, up),
              LAMBDA it : ~arrIncludes(itemBlacklist, it.id))

Init ==
    /\ srcItems \in ItemLists
    /\ LET e == constructor(srcItems, HideoutData, QuestData, ProjectData)
       IN  /\ items = e.items
           /\ hideoutModules = e.hideoutModules
           /\ quests = e.quests
           /\ projects = e.projects
           /\ reverseRecipeIndex = e.reverseRecipeIndex
           /\ allItems = initAllItems(e, DEFAULT_USER_PROGRESS)
    /\ appUserProgress = DEFAULT_USER_PROGRESS
    /\ lastCall = Idle

UnchangedEngine ==
    UNCHANGED <<srcItems, items, hideoutModules, quests, projects, reverseRecipeIndex>>

UnchangedApp == UNCHANGED <<appUserProgress, allItems>>

\* the resolver stores the level it defaulted to in the caller's object
\* (userProgress.hideoutLevels[module.id] ||= 1)
ClassifyStoringDefaults(item, userProgress) ==
    /\ lastCall.op = "none"
    /\ lastCall' = [op |-> "classify", item |-> item, snapshot |-> userProgress,
                    userProgress |->
                        [userProgress EXCEPT !.hideoutLevels =
                            [m \in DOMAIN @ \cup {hideoutModules[i].id :
                                                     i \in 1..Len(hideoutModules)} |->
                                IF m \in DOMAIN @ /\ @[m] # 0 THEN @[m] ELSE 1]],
                    verdict |-> getDecision(this, item, userProgress)]
    /\ UnchangedEngine
    /\ UnchangedApp

\* a caller invokes getDecision(item, userProgress); the record keeps the
\* snapshot as the caller passed it and the caller's object as the call left it
Classify(item, userProgress) ==
    /\ lastCall.op = "none"
    /\ lastCall' = [op |-> "classify", item |-> item, snapshot |-> userProgress,
                    userProgress |-> userProgress,
                    verdict |-> getDecision(this, item, userProgress)]
    /\ UnchangedEngine
    /\ UnchangedApp

\* the caller marks one more quest completed and classifies the same item again
Reclassify(questId) ==
    /\ lastCall.op = "classify"
    /\ lastCall.item \in ReclassifiedItems
    /\ ~arrIncludes(lastCall.userProgress.completedQuests, questId)
    /\ LET up == [lastCall.userProgress EXCEPT
                     !.completedQuests = Append(@, questId)]
       IN  lastCall' = [op |-> "classify", item |-> lastCall.item, snapshot |-> up,
                        userProgress |-> up,
                        verdict |-> getDecision(this, lastCall.item, up)]
    /\ UnchangedEngine
    /\ UnchangedApp

\* the engine keeps what the snapshot told it: the quests the snapshot lists
\* as completed are dropped from this.quests
ClassifyAllPruningQuests(userProgress) ==
    /\ lastCall.op = "none"
    /\ lastCall' = [op |-> "classifyAll", snapshot |-> userProgress,
                    userProgress |-> userProgress,
                    result |-> getItemsWithDecisions(this, userProgress)]
    /\ quests' = SelectSeq(quests,
                     LAMBDA q : ~arrIncludes(userProgress.completedQuests, q.id))
    /\ UNCHANGED <<srcItems, items, hideoutModules, projects, reverseRecipeIndex>>
    /\ UnchangedApp

ClassifyAll(userProgress) ==
    /\ lastCall.op = "none"
    /\ lastCall' = [op |-> "classifyAll", snapshot |-> userProgress,
                    userProgress |-> userProgress,
                    result |-> getItemsWithDecisions(this, userProgress)]
    /\ UnchangedEngine
    /\ UnchangedApp

CountByDecision(userProgress) ==
    /\ lastCall.op = "none"
    /\ lastCall' = [op |-> "stats", snapshot |-> userProgress,
                    userProgress |-> userProgress,
                    stats |-> getDecisionStats(this, userProgress)]
    /\ UnchangedEngine
    /\ UnchangedApp

\* the lookup empties the index entry it reads (itemIds.splice(0) for the copy)
ItemsUsingIngredientSplice(itemId) ==
    /\ lastCall.op = "none"
    /\ lastCall' = [op |-> "using", itemId |-> itemId,
                    result |-> getItemsUsingIngredient(this, itemId)]
    /\ reverseRecipeIndex' =
           [x \in DOMAIN reverseRecipeIndex |->
               IF x = itemId THEN <<>> ELSE reverseRecipeIndex[x]]
    /\ UNCHANGED <<srcItems, items, hideoutModules, quests, projects>>
    /\ UnchangedApp

ItemsUsingIngredient(itemId) ==
    /\ lastCall.op = "none"
    /\ lastCall' = [op |-> "using", itemId |-> itemId,
                    result |-> getItemsUsingIngredient(this, itemId)]
    /\ UnchangedEngine
    /\ UnchangedApp

\* the caller has consumed the result
Return ==
    /\ lastCall.op # "none"
    /\ lastCall' = Idle
    /\ UnchangedEngine
    /\ UnchangedApp

Next ==
    \/ \E c \in Calls : Classify(c[1], c[2])
    \/ \E q \in {"q1", "q2"} : Reclassify(q)
    \/ \E up \in ProgressAll : ClassifyAll(up)
    \/ \E up \in ProgressAll : CountByDecision(up)
    \/ \E id \in Ids \cup {GHOST} : ItemsUsingIngredient(id)
    \/ Return

Spec == Init /\ [][Next]_vars

(***************************************************************************)
(* The App's progress handlers.                                            *)
(***************************************************************************)
\* this.userProgress.hideoutLevels[module.id] ?? 0
shownLevel(module) ==
    IF module.id \in DOMAIN appUserProgress.hideoutLevels
    THEN appUserProgress.hideoutLevels[module.id]
    ELSE 0

\* the item list is recalculated from the progress as it was before the write
updateWorkshopLevelStale(moduleId, level) ==
    /\ appUserProgress' = [appUserProgress EXCEPT
                            !.hideoutLevels = (moduleId :> level) @@ @]
    /\ allItems' = getItemsWithDecisions(this, appUserProgress)
    /\ UnchangedEngine
    /\ UNCHANGED lastCall

updateWorkshopLevel(moduleId, level) ==
    /\ appUserProgress' = [appUserProgress EXCEPT
                            !.hideoutLevels = (moduleId :> level) @@ @]
    /\ allItems' = getItemsWithDecisions(this, appUserProgress')
    /\ UnchangedEngine
    /\ UNCHANGED lastCall

\* a click on the tick of one level of a module card
WorkshopTickClick(i, level) ==
    /\ lastCall.op = "none"
    /\ i \in 1..Len(hideoutModules)
    /\ level \in 1..hideoutModules[i].maxLevel
    /\ LET currentlyCompleted == level <= shownLevel(hideoutModules[i])
           newLevel == IF currentlyCompleted THEN level - 1 ELSE level
       IN  updateWorkshopLevel(hideoutModules[i].id, newLevel)

\* the quests of one trader card: the model's quests have no trader and no
\* sortOrder, so they are the one card "Unknown", in the order of the list
traderQuests == quests

\* [...completedSet] after the adds and deletes on new Set(completedQuests)
completedAfter(completedQuests, qs, completedCount) ==
    LET questsToComplete == [i \in 1..completedCount |-> qs[i].id]
        questsToUncomplete ==
            [i \in 1..(Len(qs) - completedCount) |-> qs[completedCount + i].id]
        added == completedQuests
                   \o SelectSeq(questsToComplete,
                                LAMBDA id : ~arrIncludes(completedQuests, id))
    IN  SelectSeq(added, LAMBDA id : ~arrIncludes(questsToUncomplete, id))

updateQuestProgress(qs, completedCount) ==
    /\ appUserProgress' = [appUserProgress EXCEPT
                            !.completedQuests = completedAfter(@, qs, completedCount)]
    /\ allItems' = getItemsWithDecisions(this, appUserProgress')
    /\ UnchangedEngine
    /\ UNCHANGED lastCall

\* a click on the tick of the quest at position index (from 0) of the card
QuestTickClick(index) ==
    /\ lastCall.op = "none"
    /\ index \in 0..(Len(traderQuests) - 1)
    /\ LET completedCount ==
               Cardinality({i \in 1..Len(traderQuests) :
                   arrIncludes(appUserProgress.completedQuests, traderQuests[i].id)})
           currentlyCompleted == index < completedCount
           newValue == IF currentlyCompleted THEN index ELSE index + 1
       IN  updateQuestProgress(traderQuests, newValue)

NextApp ==
    \/ \E i \in 1..Len(hideoutModules), level \in 1..MaxHideoutLevel :
          WorkshopTickClick(i, level)
    \/ \E index \in 0..(Len(traderQuests) - 1) : QuestTickClick(index)

SpecApp == Init /\ [][NextApp]_vars

(***************************************************************************)
(* Vocabulary of the properties.                                           *)
(***************************************************************************)
IsClassify == lastCall.op = "classify"
Decisions == {"keep", "sell_or_recycle", "situational"}

\* the cascade step a verdict comes from, read off its first reason
StepTexts ==
    << "Valuable currency item",
       "Legendary rarity - extremely valuable",
       "Blueprint - valuable for unlocking crafting recipes",
       "Weapon - review based on your current loadout",
       "Ammunition - essential for weapons",
       "Consumable item - grenades, healing items, etc.",
       "Key - opens locked areas and containers",
       "Required for quest: ",
       "Needed for project: ",
       "Required for hideout upgrade: ",
       "Used in N crafting recipes",
       "High value (N coins)",
       "Recycles into: ",
       " rarity",
       "No immediate use found" >>

StepOf(verdict) ==
    IF Len(verdict.reasons) = 0 THEN 0
    ELSE IF \E k \in 1..15 : StepTexts[k] = verdict.reasons[1].text
    THEN CHOOSE k \in 1..15 : StepTexts[k] = verdict.reasons[1].text
    ELSE 0

StepDecision ==
    << "keep", "keep", "situational", "situational", "situational",
       "situational", "situational", "keep", "keep", "keep",
       "situational", "sell_or_recycle", "sell_or_recycle", "situational",
       "sell_or_recycle" >>

\* the condition of rule k of the cascade on (item, userProgress)
RuleHolds(k, self, item, userProgress) ==
    CASE k = 1 -> item.id = ASSORTED_SEEDS
      [] k = 2 -> Has(item, "rarity") /\ toLowerCase(item.rarity) = LEGENDARY
      [] k = 3 -> item.type = BLUEPRINT
      [] k = 4 -> item.type = WEAPON \/ isWeaponVariant(item)
      [] k = 5 -> item.type = AMMUNITION
      [] k = 6 -> item.type = QUICK_USE
      [] k = 7 -> item.type = KEY
      [] k = 8 -> isUsedInActiveQuests(self.quests, item, userProgress).isUsed
      [] k = 9 -> isUsedInActiveProjects(self.projects, item, userProgress).isUsed
      [] k = 10 -> isNeededForUpgrades(self.hideoutModules, item, userProgress).isNeeded
      [] k = 11 -> evaluateCraftingValue(self, item).isValuable
      [] k = 12 -> isHighValueTrinket(item)
      [] k = 13 -> evaluateRecycleValue(self, item).isValuable
      [] k = 14 -> Has(item, "rarity") /\ toLowerCase(item.rarity) \in {RARE, EPIC}
      [] OTHER -> TRUE

FirstRule(self, item, userProgress) ==
    CHOOSE k \in 1..15 :
        /\ RuleHolds(k, self, item, userProgress)
        /\ \A j \in 1..(k - 1) : ~RuleHolds(j, self, item, userProgress)

\* steps 1 .. n of the cascade do not match the item
NotMatchedUpTo(n, self, item, userProgress) ==
    \A k \in 1..n : ~RuleHolds(k, self, item, userProgress)

(***************************************************************************)
(* C1: the verdict of every classify call is the verdict of the first of   *)
(* the 15 rules, in the fixed order, whose condition holds; no rule that   *)
(* holds lies before the step that produced the verdict.                   *)
(***************************************************************************)
C1_FirstMatch ==
    IsClassify =>
        LET k == FirstRule(this, lastCall.item, lastCall.userProgress)
        IN  /\ StepOf(lastCall.verdict) = k
            /\ lastCall.verdict.decision = StepDecision[k]
            /\ \A j \in 1..15 :
                  RuleHolds(j, this, lastCall.item, lastCall.userProgress)
                      => StepOf(lastCall.verdict) <= j

\* crafting value and recycle value both hold and crafting (step 11) wins
C1_Witness ==
    /\ IsClassify
    /\ RuleHolds(11, this, lastCall.item, lastCall.userProgress)
    /\ RuleHolds(13, this, lastCall.item, lastCall.userProgress)
    /\ StepOf(lastCall.verdict) = 11
    /\ lastCall.verdict.decision = "situational"

(***************************************************************************)
(* C2: every classify call completes without an error and returns one      *)
(* verdict whose decision is keep, sell_or_recycle or situational and      *)
(* whose reasons list is non-empty, also when optional fields are absent.  *)
(***************************************************************************)
C2_Total ==
    IsClassify =>
        /\ lastCall.verdict # Thrown
        /\ lastCall.verdict.decision \in Decisions
        /\ Len(lastCall.verdict.reasons) > 0

\* an item with none of rarity, recipe, recyclesInto, salvagesInto, crafting
C2_Witness ==
    /\ IsClassify
    /\ DOMAIN lastCall.item = {"id", "name", "type", "value"}
    /\ lastCall.verdict.decision \in Decisions

(***************************************************************************)
(* C3 (as stated): every item with rarity legendary is classified keep     *)
(* with a reason mentioning "Legendary", under every progress snapshot.    *)
(* Refuted by a legendary item whose id is assorted_seeds: step 1 returns  *)
(* keep with the two currency reasons.                                     *)
(***************************************************************************)
MentionsLegendary(reason) ==
    \/ reason.text = "Legendary rarity - extremely valuable"
    \/ includes(reason.chars, LEGENDARY_CAP)

HasLegendaryReason(verdict) ==
    \E i \in 1..Len(verdict.reasons) : MentionsLegendary(verdict.reasons[i])

IsLegendaryItem(item) == Has(item, "rarity") /\ item.rarity = LEGENDARY

C3_AsStated ==
    (IsClassify /\ IsLegendaryItem(lastCall.item)) =>
        /\ lastCall.verdict.decision = "keep"
        /\ HasLegendaryReason(lastCall.verdict)

(***************************************************************************)
(* C3 (amended): every item with rarity legendary is classified keep under *)
(* every progress snapshot; a reason mentions "Legendary" exactly when the *)
(* item's id is not the always-keep id assorted_seeds.                     *)
(***************************************************************************)
C3_LegendaryKeep ==
    (IsClassify /\ IsLegendaryItem(lastCall.item)) =>
        /\ lastCall.verdict.decision = "keep"
        /\ HasLegendaryReason(lastCall.verdict) <=> lastCall.item.id # ASSORTED_SEEDS

\* a legendary item that quests, projects and the hideout still reference
C3_Witness ==
    /\ IsClassify
    /\ IsLegendaryItem(lastCall.item)
    /\ lastCall.item.id = WIRE
    /\ lastCall.userProgress = EmptyProgress
    /\ lastCall.verdict.decision = "keep"
    /\ HasLegendaryReason(lastCall.verdict)

(***************************************************************************)
(* C4: an item that a quest not in completedQuests references, as a        *)
(* requirement or as a reward item, and that steps 1-7 do not match, is    *)
(* classified keep with that quest's name among the dependencies; when the *)
(* caller adds that quest's id to completedQuests and classifies the same  *)
(* item again, the new verdict cites the quest neither in its reasons nor  *)
(* in its dependencies.                                                    *)
(***************************************************************************)
QuestReferences(quest, id) ==
    \/ Has(quest, "requirements") /\ someReq(quest.requirements, id)
    \/ Has(quest, "rewardItemIds") /\ someReq(quest.rewardItemIds, id)

InSeq(x, seq) == \E i \in 1..Len(seq) : seq[i] = x

Cites(verdict, name) ==
    \/ Has(verdict, "dependencies") /\ InSeq(Str(name), verdict.dependencies)
    \/ \E i \in 1..Len(verdict.reasons) : InSeq(Str(name), verdict.reasons[i].names)

C4_KeptForQuest ==
    IsClassify =>
        \A i \in 1..Len(quests) :
            ( /\ QuestReferences(quests[i], lastCall.item.id)
              /\ ~arrIncludes(lastCall.userProgress.completedQuests, quests[i].id)
              /\ NotMatchedUpTo(7, this, lastCall.item, lastCall.userProgress) )
            => /\ lastCall.verdict.decision = "keep"
               /\ Has(lastCall.verdict, "dependencies")
               /\ InSeq(Str(quests[i].name), lastCall.verdict.dependencies)

C4_NotCitedAfterCompletion ==
    \A i \in 1..Len(quests) :
        ( /\ IsClassify
          /\ lastCall'.op = "classify"
          /\ lastCall'.item = lastCall.item
          /\ QuestReferences(quests[i], lastCall.item.id)
          /\ NotMatchedUpTo(7, this, lastCall.item, lastCall.userProgress)
          /\ ~arrIncludes(lastCall.userProgress.completedQuests, quests[i].id)
          /\ lastCall'.userProgress =
                 [lastCall.userProgress EXCEPT
                     !.completedQuests = Append(@, quests[i].id)] )
        => /\ Cites(lastCall.verdict, quests[i].name)
           /\ ~Cites(lastCall'.verdict, quests[i].name)

C4_QuestCitation ==
    [] C4_KeptForQuest /\ [][C4_NotCitedAfterCompletion]_vars

\* wire was kept for Alpha and Beta; Beta was completed before, Alpha has
\* just been completed by the caller, and the verdict cites neither
C4_Witness ==
    /\ IsClassify
    /\ lastCall.item.id = WIRE
    /\ NotMatchedUpTo(7, this, lastCall.item, lastCall.userProgress)
    /\ lastCall.userProgress.completedQuests = <<"q2", "q1">>
    /\ ~Cites(lastCall.verdict, "Alpha")
    /\ ~Cites(lastCall.verdict, "Beta")

(***************************************************************************)
(* C5: the verdict of every classify call carries recycleValueExceedsItem  *)
(* = true if and only if the summed value (output value times quantity,    *)
(* over the outputs found in the catalog) of the item's recycle outputs    *)
(* (the first non-empty of recyclesInto, salvagesInto, crafting) is        *)
(* strictly greater than the item's value, whichever step produced the     *)
(* verdict.                                                                *)
(***************************************************************************)
SourcesOf(item) ==
    <<IF Has(item, "recyclesInto") THEN item.recyclesInto ELSE <<>>,
      IF Has(item, "salvagesInto") THEN item.salvagesInto ELSE <<>>,
      IF Has(item, "crafting") THEN item.crafting ELSE <<>> >>

FirstNonEmptySource(item) ==
    LET src == SourcesOf(item)
    IN  IF \E i \in 1..3 : Len(src[i]) > 0
        THEN src[CHOOSE i \in 1..3 :
                    Len(src[i]) > 0 /\ \A j \in 1..(i - 1) : Len(src[j]) = 0]
        ELSE <<>>

RECURSIVE SumFound(_, _)
SumFound(catalog, entries) ==
    IF Len(entries) = 0 THEN 0
    ELSE (IF \E i \in 1..Len(catalog) : catalog[i].id = Head(entries).k
          THEN mapGet(catalog, Head(entries).k)[1].value * Head(entries).q
          ELSE 0) + SumFound(catalog, Tail(entries))

FlagSet(verdict) ==
    Has(verdict, "recycleValueExceedsItem") /\ verdict.recycleValueExceedsItem

C5_FlagIffOutputsExceed ==
    IsClassify =>
        ( FlagSet(lastCall.verdict)
            <=> SumFound(items, FirstNonEmptySource(lastCall.item)) > lastCall.item.value )

(***************************************************************************)
(* C6: getDecisionStats returns a record with exactly the buckets keep,    *)
(* sell_or_recycle and situational, and the three counts add up to the     *)
(* number of catalog entries (the distinct ids of the constructor's list). *)
(***************************************************************************)
CatalogIds == {srcItems[i].id : i \in 1..Len(srcItems)}

C6_BucketsSumToCatalog ==
    lastCall.op = "stats" =>
        /\ DOMAIN lastCall.stats = Decisions
        /\ \A d \in Decisions : lastCall.stats[d] >= 0
        /\ lastCall.stats.keep + lastCall.stats.sell_or_recycle
              + lastCall.stats.situational = Cardinality(CatalogIds)

\* a catalog built from a list with a duplicate id, all three buckets used
C6_Witness ==
    /\ lastCall.op = "stats"
    /\ Cardinality(CatalogIds) < Len(srcItems)
    /\ \A d \in Decisions : lastCall.stats[d] > 0

(***************************************************************************)
(* C7: the verdict of a classify call is determined by the item, the       *)
(* progress snapshot and the data the engine was constructed from: it      *)
(* equals the verdict on the freshly constructed engine, whatever calls    *)
(* were made on the engine before.  Two calls with the same item and the   *)
(* same snapshot therefore return identical verdicts (decision, reasons    *)
(* and dependencies in order, recycleValueExceedsItem).                    *)
(***************************************************************************)
FreshEngine == constructor(srcItems, HideoutData, QuestData, ProjectData)

C7_SameInputsSameVerdict ==
    IsClassify =>
        lastCall.verdict = getDecision(FreshEngine, lastCall.item, lastCall.userProgress)

\* a verdict that reads the reverse recipe index and the catalog
C7_Witness ==
    /\ IsClassify
    /\ StepOf(lastCall.verdict) = 11
    /\ lastCall.verdict.reasons[1].nums = <<3>>
    /\ FlagSet(lastCall.verdict)

(***************************************************************************)
(* The catalog as the properties describe it: one entry per distinct id of *)
(* the constructor's list, in the order of first appearance, holding the   *)
(* last item of the list with that id.                                     *)
(***************************************************************************)
LastWithId(list, id) ==
    list[CHOOSE i \in 1..Len(list) :
            /\ list[i].id = id
            /\ \A j \in (i + 1)..Len(list) : list[j].id # id]

RECURSIVE CatalogFrom(_, _)
CatalogFrom(list, i) ==
    IF i > Len(list) THEN <<>>
    ELSE (IF \A j \in 1..(i - 1) : list[j].id # list[i].id
          THEN <<LastWithId(list, list[i].id)>>
          ELSE <<>>) \o CatalogFrom(list, i + 1)

Catalog == CatalogFrom(srcItems, 1)

RecipeHasKey(item, x) ==
    Has(item, "recipe") /\ \E i \in 1..Len(item.recipe) : item.recipe[i].k = x

C9_OnePerEntryInInsertionOrder ==
    lastCall.op = "classifyAll" =>
        /\ Len(lastCall.result) = Len(Catalog)
        /\ \A i \in 1..Len(Catalog) :
              /\ \A f \in DOMAIN Catalog[i] :
                    f # "decisionData" => lastCall.result[i][f] = Catalog[i][f]
              /\ DOMAIN lastCall.result[i] = DOMAIN Catalog[i] \cup {"decisionData"}
              /\ lastCall.result[i].decisionData =
                    getDecision(this, Catalog[i], lastCall.userProgress)

\* a list with a duplicate id whose first occurrence is not at the end
C9_Witness ==
    /\ lastCall.op = "classifyAll"
    /\ Len(lastCall.result) < Len(srcItems)
    /\ srcItems[1].id = JUNK
    /\ lastCall.result[1].name = "Junk (old)"
    /\ lastCall.result[1].decisionData.decision \in Decisions

(***************************************************************************)
(* C10: an item whose id is a non-empty base, "_" and a Roman numeral I..X *)
(* in either case, and that steps 1-3 do not match, is classified          *)
(* situational by the weapon rule (step 4), whatever its type and the      *)
(* progress snapshot.                                                      *)
(***************************************************************************)
RomanNumerals ==
    { <<"i">>, <<"i", "i">>, <<"i", "i", "i">>, <<"i", "v">>, <<"v">>,
      <<"v", "i">>, <<"v", "i", "i">>, <<"v", "i", "i", "i">>, <<"i", "x">>, <<"x">> }

HasRomanSuffix(id) ==
    \E k \in 2..(Len(id) - 1) :
        /\ id[k] = "_"
        /\ toLowerCase(SubSeq(id, k + 1, Len(id))) \in RomanNumerals

C10_VariantIsSituational ==
    ( /\ IsClassify
      /\ HasRomanSuffix(lastCall.item.id)
      /\ NotMatchedUpTo(3, this, lastCall.item, lastCall.userProgress) )
    => /\ StepOf(lastCall.verdict) = 4
       /\ lastCall.verdict.decision = "situational"

\* rifle_iii declared as a material and required by the open quest Alpha
C10_Witness ==
    /\ IsClassify
    /\ lastCall.item.id = RIFLE_III
    /\ lastCall.item.type = MATERIAL
    /\ QuestReferences(quests[1], lastCall.item.id)
    /\ lastCall.userProgress = EmptyProgress
    /\ StepOf(lastCall.verdict) = 4

(***************************************************************************)
(* C11: an item that steps 1-10 do not match and that more than 2 distinct  *)
(* catalog items use as a recipe ingredient, or at least 1 catalog item     *)
(* while its rarity is rare or epic, is classified situational by the       *)
(* crafting step with a reason citing that number of items; an item used    *)
(* by 1 or 2 catalog items whose rarity is common, uncommon or absent is    *)
(* not matched by the crafting step.                                        *)
(***************************************************************************)
UNCOMMON == <<"u", "n", "c", "o", "m", "m", "o", "n">>

\* the number of distinct catalog items whose recipe has ingredient x
CatalogUsers(x) == Len(SelectSeq(Catalog, LAMBDA it : RecipeHasKey(it, x)))

RarityIn(item, rarities) == Has(item, "rarity") /\ item.rarity \in rarities

C12_NoInterference ==
    /\ lastCall.op = "classify" =>
          lastCall.verdict =
              getDecision(FreshEngine, lastCall.item, lastCall.userProgress)
    /\ lastCall.op = "classifyAll" =>
          lastCall.result = getItemsWithDecisions(FreshEngine, lastCall.userProgress)
    /\ lastCall.op = "stats" =>
          lastCall.stats = getDecisionStats(FreshEngine, lastCall.userProgress)

\* a tally under the empty snapshot in which wire is kept for its quests,
\* whatever snapshots the calls before it were given
C12_Witness ==
    /\ lastCall.op = "stats"
    /\ lastCall.userProgress = EmptyProgress
    /\ \E i \in 1..Len(items) :
          /\ items[i].id = WIRE
          /\ StepOf(getDecision(this, items[i], EmptyProgress)) = 8
    /\ lastCall.stats.keep > 0

(***************************************************************************)
(* C13: every engine query (getDecision, getItemsWithDecisions,             *)
(* getDecisionStats, getItemsUsingIngredient) leaves the progress object    *)
(* passed to it as it was passed, and leaves the catalog, the reverse       *)
(* recipe index and the quest, project and hideout lists unchanged; the     *)
(* engine's structures stay as the constructor built them under every       *)
(* sequence of calls.                                                       *)
(***************************************************************************)
TakesProgress(call) == call.op \in {"classify", "classifyAll", "stats"}

C13_QueryStep ==
    lastCall'.op # "none" =>
        /\ UNCHANGED <<items, reverseRecipeIndex, quests, projects, hideoutModules>>
        /\ TakesProgress(lastCall') => lastCall'.userProgress = lastCall'.snapshot

C13_QueriesChangeNothing ==
    [] (this = FreshEngine) /\ [][C13_QueryStep]_vars

\* the hideout resolver has read the level of modules the snapshot has no
\* entry for, and the snapshot still has no entry
C13_Witness ==
    /\ IsClassify
    /\ StepOf(lastCall.verdict) = 10
    /\ lastCall.snapshot.hideoutLevels = NoLevels
    /\ lastCall.userProgress.hideoutLevels = NoLevels
    /\ this = FreshEngine

(***************************************************************************)
(* C14: the engine is constructed from every item list, also one with       *)
(* duplicate ids or with items that have no recipe; the catalog holds       *)
(* exactly one entry per distinct id of the list, the last item of the list *)
(* with that id, and the reverse recipe index holds, per ingredient, the    *)
(* ids of the list items whose recipe names it: an item without a recipe    *)
(* appears in no entry.                                                     *)
(***************************************************************************)
HasDuplicateIds(list) == Cardinality({list[i].id : i \in 1..Len(list)}) < Len(list)

IdsOf(list) == [i \in 1..Len(list) |-> list[i].id]

InCatalog(id) == \E i \in 1..Len(items) : items[i].id = id

FoundEntries(entries) == SelectSeq(entries, LAMBDA e : InCatalog(e.k))

HasDangling(item) ==
    \E i \in 1..Len(FirstNonEmptySource(item)) :
        ~InCatalog(FirstNonEmptySource(item)[i].k)

C15_DanglingSkipped ==
    (IsClassify /\ HasDangling(lastCall.item)) =>
        LET entries == FirstNonEmptySource(lastCall.item)
            found == FoundEntries(entries)
            total == SumFound(items, entries)
        IN  /\ lastCall.verdict # Thrown
            /\ lastCall.verdict.decision \in Decisions
            /\ FlagSet(lastCall.verdict) <=> total > lastCall.item.value
            /\ StepOf(lastCall.verdict) = 13 =>
                  /\ lastCall.verdict.reasons[1].names =
                        [i \in 1..Len(found) |->
                            Str(mapGet(items, found[i].k)[1].name)]
                  /\ lastCall.verdict.reasons[1].nums =
                        [i \in 1..Len(found) |-> found[i].q]
                  /\ lastCall.verdict.reasons[2].nums = <<total, lastCall.item.value>>

\* recyclesInto {ghost: 5, metal: 4} on a catalog with metal (30) and without
\* ghost: 120 coins, more than the item's 100, and only Metal in the breakdown
C15_Witness ==
    /\ IsClassify
    /\ HasDangling(lastCall.item)
    /\ InCatalog(METAL)
    /\ lastCall.item.value = 100
    /\ StepOf(lastCall.verdict) = 13
    /\ lastCall.verdict.reasons[1].names = <<Str("Metal")>>
    /\ lastCall.verdict.reasons[2].nums = <<120, 100>>
    /\ FlagSet(lastCall.verdict)

(***************************************************************************)
(* C16: when a progress handler of the App (updateWorkshopLevel,            *)
(* updateQuestProgress) has completed, the App's item list holds one entry  *)
(* per catalog item and every entry carries the verdict of that item under  *)
(* the progress as it now is; in every state each listed item carries the   *)
(* verdict under the current progress, none from an earlier progress.       *)
(***************************************************************************)
ItemOf(entry) == [f \in DOMAIN entry \ {"decisionData"} |-> entry[f]]

C16_ListIsCurrent ==
    \A i \in 1..Len(allItems) :
        allItems[i].decisionData =
            getDecision(this, ItemOf(allItems[i]), appUserProgress)

C16_HandlerStep ==
    appUserProgress' # appUserProgress =>
        /\ Len(allItems') = Len(items)
        /\ \A i \in 1..Len(items) :
              /\ ItemOf(allItems'[i]) = items[i]
              /\ allItems'[i].decisionData =
                    getDecision(this, items[i], appUserProgress')

C16_ReclassifiedOnChange ==
    [] C16_ListIsCurrent /\ [][C16_HandlerStep]_vars

\* wire was kept for its quests and for Workbench level 2; with the quests
\* completed and the Workbench at level 2 the list shows it as situational
C16_Witness ==
    /\ appUserProgress.completedQuests = <<"q1", "q2">>
    /\ appUserProgress.hideoutLevels["m1"] = 2
    /\ \E i \in 1..Len(allItems) :
          /\ allItems[i].id = WIRE
          /\ StepOf(allItems[i].decisionData) = 11
          /\ StepOf(getDecision(this, ItemOf(allItems[i]), DEFAULT_USER_PROGRESS)) = 8

(***************************************************************************)
(* C17: a level recorded for a module id the engine does not know changes   *)
(* no verdict, and a module without an entry in hideoutLevels is treated as *)
(* being at level 1: the verdict is the one obtained with the entry set to  *)
(* 1, its level-1 requirements are never cited and, when the module has a   *)
(* max level above 1 and steps 1-9 do not match, its requirements for       *)
(* levels 2 and above are.                                                  *)
(***************************************************************************)
ModuleIds == {hideoutModules[i].id : i \in 1..Len(hideoutModules)}

\* the snapshot without the levels of unknown module ids
KnownLevelsOnly(up) ==
    [up EXCEPT !.hideoutLevels = [m \in DOMAIN @ \cap ModuleIds |-> @[m]]]

\* the snapshot with every known module that has no entry put at level 1
MissingAtOne(up) ==
    [up EXCEPT !.hideoutLevels =
        [m \in DOMAIN @ \cup ModuleIds |-> IF m \in DOMAIN @ THEN @[m] ELSE 1]]

LevelRequires(levelData, id) ==
    Has(levelData, "requirementItemIds") /\ someReq(levelData.requirementItemIds, id)

CitesLevel(verdict, name, n) ==
    Has(verdict, "dependencies") /\ InSeq(LevelStr(name, n), verdict.dependencies)

C17_UnknownIgnoredMissingIsOne ==
    IsClassify =>
        LET item == lastCall.item
            up == lastCall.userProgress
        IN  /\ lastCall.verdict = getDecision(this, item, KnownLevelsOnly(up))
            /\ lastCall.verdict = getDecision(this, item, MissingAtOne(up))
            /\ \A i \in 1..Len(hideoutModules) :
                  hideoutModules[i].id \notin DOMAIN up.hideoutLevels =>
                      \A l \in 1..Len(hideoutModules[i].levels) :
                          LET levelData == hideoutModules[i].levels[l]
                          IN  LevelRequires(levelData, item.id) =>
                                /\ levelData.level <= 1 =>
                                      ~CitesLevel(lastCall.verdict,
                                                  hideoutModules[i].name, levelData.level)
                                /\ ( /\ levelData.level >= 2
                                     /\ hideoutModules[i].maxLevel > 1
                                     /\ NotMatchedUpTo(9, this, item, up) )
                                      => CitesLevel(lastCall.verdict,
                                                    hideoutModules[i].name, levelData.level)

\* only the unknown module zz has a level: wire, free of quests and projects,
\* is kept for Workbench level 2
C17_Witness ==
    /\ IsClassify
    /\ lastCall.userProgress.hideoutLevels = ("zz" :> 2)
    /\ lastCall.item.id = WIRE
    /\ StepOf(lastCall.verdict) = 10
    /\ lastCall.verdict.dependencies = <<LevelStr("Workbench", 2)>>

(***************************************************************************)
(* C18: a negative level recorded for a known hideout module has no         *)
(* effect: classification completes and the verdict of every item equals    *)
(* the verdict obtained when that module has no entry in hideoutLevels.     *)
(* Refuted: -1 is truthy, so `|| 1` keeps it as the current level and every *)
(* level entry of the module, level 1 included, counts as pending.          *)
(***************************************************************************)
HasNegativeLevel(up) ==
    \E m \in DOMAIN up.hideoutLevels \cap ModuleIds : up.hideoutLevels[m] < 0

\* the snapshot without the entries of known modules that hold a negative level
WithoutNegativeLevels(up) ==
    [up EXCEPT !.hideoutLevels =
        [m \in {x \in DOMAIN @ : ~(x \in ModuleIds /\ @[x] < 0)} |-> @[m]]]

C18_NegativeLevelNoEffect ==
    (IsClassify /\ HasNegativeLevel(lastCall.userProgress)) =>
        /\ lastCall.verdict # Thrown
        /\ lastCall.verdict =
              getDecision(this, lastCall.item,
                          WithoutNegativeLevels(lastCall.userProgress))

(***************************************************************************)
(* C19: for every module whose current level (its entry in hideoutLevels,   *)
(* level 1 when it has none) is below its max level, the hideout resolver   *)
(* records "<module name> (Level N)" for exactly the level entries N        *)
(* strictly above the current level whose requirements name the item, one   *)
(* entry per level, also when the current level is 0, where the level-1     *)
(* requirements are pending.  Read off the verdicts of items that steps 1-9 *)
(* do not match, for snapshots without negative levels.                     *)
(* Refuted at level 0: `|| 1` turns 0 into 1 and the level-1 requirements   *)
(* are not recorded.                                                        *)
(***************************************************************************)
RecordedLevel(module, up) ==
    IF module.id \in DOMAIN up.hideoutLevels THEN up.hideoutLevels[module.id] ELSE 1

PendingOf(module, id, up) ==
    IF RecordedLevel(module, up) >= module.maxLevel THEN <<>>
    ELSE LET sel == SelectSeq(module.levels,
                        LAMBDA l : /\ l.level > RecordedLevel(module, up)
                                   /\ LevelRequires(l, id))
         IN  [i \in 1..Len(sel) |-> LevelStr(module.name, sel[i].level)]

RECURSIVE PendingAll(_, _, _)
PendingAll(ms, id, up) ==
    IF Len(ms) = 0 THEN <<>>
    ELSE PendingOf(Head(ms), id, up) \o PendingAll(Tail(ms), id, up)

C19_PendingLevelsRecorded ==
    ( /\ IsClassify
      /\ ~HasNegativeLevel(lastCall.userProgress)
      /\ NotMatchedUpTo(9, this, lastCall.item, lastCall.userProgress) )
    => LET expected == PendingAll(hideoutModules, lastCall.item.id,
                                  lastCall.userProgress)
       IN  IF Len(expected) = 0
           THEN StepOf(lastCall.verdict) # 10
           ELSE /\ StepOf(lastCall.verdict) = 10
                /\ lastCall.verdict.dependencies = expected

(***************************************************************************)
(* C20: a module whose current level (its entry in hideoutLevels, level 1   *)
(* when it has none) is at or above its max level contributes no entry for  *)
(* any item, also when its level list has an entry above the current level  *)
(* that requires the item; the verdict is the one of an engine without      *)
(* that module, so the module alone never causes a keep.                    *)
(***************************************************************************)
IsMaxed(module, up) == RecordedLevel(module, up) >= module.maxLevel

WithoutMaxedModules(self, up) ==
    [self EXCEPT !.hideoutModules = SelectSeq(@, LAMBDA m : ~IsMaxed(m, up))]

C20_MaxedModuleExcluded ==
    IsClassify =>
        /\ \A i \in 1..Len(hideoutModules) :
              IsMaxed(hideoutModules[i], lastCall.userProgress) =>
                  \A n \in 0..(MaxHideoutLevel + 1) :
                      ~CitesLevel(lastCall.verdict, hideoutModules[i].name, n)
        /\ lastCall.verdict =
              getDecision(WithoutMaxedModules(this, lastCall.userProgress),
                          lastCall.item, lastCall.userProgress)

\* the Stash is at its max level 1 and lists a level 2 that requires junk;
\* junk, required by nothing else, is not kept
C20_Witness ==
    /\ IsClassify
    /\ lastCall.item.id = JUNK
    /\ lastCall.userProgress = EmptyProgress
    /\ \E i \in 1..Len(hideoutModules) :
          /\ IsMaxed(hideoutModules[i], lastCall.userProgress)
          /\ \E l \in 1..Len(hideoutModules[i].levels) :
                /\ hideoutModules[i].levels[l].level
                      > RecordedLevel(hideoutModules[i], lastCall.userProgress)
                /\ LevelRequires(hideoutModules[i].levels[l], JUNK)
    /\ NotMatchedUpTo(9, this, lastCall.item, lastCall.userProgress)
    /\ lastCall.verdict.decision # "keep"

(***************************************************************************)
(* C21: the project resolver reports the item as used exactly when a        *)
(* project whose id is not in completedProjects names the item in its       *)
(* legacy requirement list or in the requirement list of a phase; the       *)
(* names it records are those of exactly these projects, each once, in the  *)
(* order of the project list.  Read off the verdicts of items that steps    *)
(* 1-8 do not match: step 9 produces the verdict iff the list is non-empty, *)
(* and the verdict carries the list.                                        *)
(***************************************************************************)
ProjectReferences(project, id) ==
    \/ Has(project, "requirements") /\ someReq(project.requirements, id)
    \/ /\ Has(project, "phases")
       /\ \E i \in 1..Len(project.phases) :
             /\ Has(project.phases[i], "requirementItemIds")
             /\ someReq(project.phases[i].requirementItemIds, id)

NamesOf(seq) == [i \in 1..Len(seq) |-> Str(seq[i].name)]

OpenProjectsNaming(id, up) ==
    NamesOf(SelectSeq(projects,
                LAMBDA p : /\ ~InSeq(p.id, up.completedProjects)
                           /\ ProjectReferences(p, id)))

C21_ProjectResolverExact ==
    (IsClassify /\ NotMatchedUpTo(8, this, lastCall.item, lastCall.userProgress)) =>
        LET expected == OpenProjectsNaming(lastCall.item.id, lastCall.userProgress)
        IN  IF Len(expected) = 0
            THEN StepOf(lastCall.verdict) # 9
            ELSE /\ StepOf(lastCall.verdict) = 9
                 /\ lastCall.verdict.dependencies = expected
                 /\ lastCall.verdict.reasons[1].names = expected

\* gear is named by phase 3 of the Expedition and by both the legacy list and
\* a phase of the Raft; each project is recorded once
C21_Witness ==
    /\ IsClassify
    /\ lastCall.item.id = GEAR
    /\ lastCall.userProgress.completedProjects = <<>>
    /\ StepOf(lastCall.verdict) = 9
    /\ lastCall.verdict.dependencies = <<Str("Expedition"), Str("Raft")>>

(***************************************************************************)
(* C22: the quest resolver returns the names of exactly the quests that are *)
(* not in completedQuests and name the item as a requirement or as a reward *)
(* item, each quest once, in the order of the quest list; isUsed holds iff  *)
(* the list is non-empty.  Read off the verdicts of items that steps 1-7 do *)
(* not match: step 8 produces the verdict iff the list is non-empty, and    *)
(* the verdict carries the list.                                            *)
(***************************************************************************)
OpenQuestsNaming(id, up) ==
    NamesOf(SelectSeq(quests,
                LAMBDA q : /\ ~InSeq(q.id, up.completedQuests)
                           /\ QuestReferences(q, id)))

C22_QuestResolverExact ==
    (IsClassify /\ NotMatchedUpTo(7, this, lastCall.item, lastCall.userProgress)) =>
        LET expected == OpenQuestsNaming(lastCall.item.id, lastCall.userProgress)
        IN  IF Len(expected) = 0
            THEN StepOf(lastCall.verdict) # 8
            ELSE /\ StepOf(lastCall.verdict) = 8
                 /\ lastCall.verdict.dependencies = expected
                 /\ lastCall.verdict.reasons[1].names = expected

\* wire is a requirement and a reward item of Alpha and a reward item of Beta
C22_Witness ==
    /\ IsClassify
    /\ lastCall.item.id = WIRE
    /\ lastCall.userProgress.completedQuests = <<>>
    /\ Has(quests[1], "requirements") /\ someReq(quests[1].requirements, WIRE)
    /\ Has(quests[1], "rewardItemIds") /\ someReq(quests[1].rewardItemIds, WIRE)
    /\ StepOf(lastCall.verdict) = 8
    /\ lastCall.verdict.dependencies = <<Str("Alpha"), Str("Beta")>>

(***************************************************************************)
(* C23: the recycle-value evaluator takes as the item's outputs the first   *)
(* non-empty mapping among recyclesInto, salvagesInto and crafting (an      *)
(* empty earlier mapping does not hide a non-empty later one), sums output  *)
(* value times quantity over the entries found in the catalog, and reports  *)
(* valuable iff the total is strictly greater than half the item's value.   *)
(* Read off the verdicts of items that steps 1-12 do not match: step 13     *)
(* produces the verdict iff the evaluator reports valuable, and its value   *)
(* reason carries the total.                                                *)
(* Refuted by an item whose recyclesInto is empty and whose salvagesInto is *)
(* not: `recyclesInto || salvagesInto || crafting` yields the empty object. *)
(***************************************************************************)
OutputsTotal(item) == SumFound(items, FirstNonEmptySource(item))

C23_FirstNonEmptySourceHalfValue ==
    (IsClassify /\ NotMatchedUpTo(12, this, lastCall.item, lastCall.userProgress)) =>
        /\ StepOf(lastCall.verdict) = 13
              <=> 2 * OutputsTotal(lastCall.item) > lastCall.item.value
        /\ StepOf(lastCall.verdict) = 13 =>
              lastCall.verdict.reasons[2].nums =
                  <<OutputsTotal(lastCall.item), lastCall.item.value>>

(***************************************************************************)
(* C24: the high-value-trinket predicate holds iff the item's value is at   *)
(* least 1000, it has no non-empty recipe, none of recyclesInto,            *)
(* salvagesInto, crafting is non-empty, and its type contains "trinket",    *)
(* "misc" or "collectible" in any case; an item of value 999 or with a      *)
(* non-empty recycle source is never matched by step 12.  Read off the      *)
(* verdicts of items that steps 1-11 do not match.                          *)
(* Refuted by a trinket of value 1000 whose recyclesInto is empty and whose *)
(* salvagesInto is not: the empty object hides the non-empty source.        *)
(***************************************************************************)
NoRecycleOutput(item) == \A i \in 1..3 : Len(SourcesOf(item)[i]) = 0

TrinketType(item) ==
    \E kw \in {KW_TRINKET, KW_MISC, KW_COLLECTIBLE} :
        includes(toLowerCase(item.type), kw)

HighValueTrinketAsSpecified(item) ==
    /\ item.value >= 1000
    /\ ~Has(item, "recipe") \/ Len(item.recipe) = 0
    /\ NoRecycleOutput(item)
    /\ TrinketType(item)

C24_HighValueTrinketExact ==
    (IsClassify /\ NotMatchedUpTo(11, this, lastCall.item, lastCall.userProgress)) =>
        /\ StepOf(lastCall.verdict) = 12 <=> HighValueTrinketAsSpecified(lastCall.item)
        /\ (lastCall.item.value = 999 \/ ~NoRecycleOutput(lastCall.item))
              => StepOf(lastCall.verdict) # 12

(***************************************************************************)
(* C25: progress advancement never creates a keep verdict.  P2 advances P   *)
(* when it holds every completed quest and project of P and no module's     *)
(* level is lower than in P (a module without an entry counts as level 1,   *)
(* the level the resolver takes for it).  An item whose verdict under P is  *)
(* not keep has the same decision, hence not keep, under every P2 that      *)
(* advances P, and the keep count of countByDecision under P2 is at most    *)
(* the count under P.                                                       *)
(***************************************************************************)
LevelIn(up, m) ==
    IF m \in DOMAIN up.hideoutLevels THEN up.hideoutLevels[m] ELSE 1

Advances(up, up2) ==
    /\ \A i \in 1..Len(up.completedQuests) :
          InSeq(up.completedQuests[i], up2.completedQuests)
    /\ \A i \in 1..Len(up.completedProjects) :
          InSeq(up.completedProjects[i], up2.completedProjects)
    /\ \A m \in DOMAIN up.hideoutLevels \cup DOMAIN up2.hideoutLevels :
          LevelIn(up2, m) >= LevelIn(up, m)

C25_AdvancementNeverCreatesKeep ==
    /\ (IsClassify /\ lastCall.verdict.decision # "keep") =>
          \A up2 \in ProgressAll :
              Advances(lastCall.userProgress, up2) =>
                  getDecision(this, lastCall.item, up2).decision
                      = lastCall.verdict.decision
    /\ lastCall.op = "stats" =>
          \A up2 \in ProgressAll :
              Advances(lastCall.userProgress, up2) =>
                  getDecisionStats(this, up2).keep <= lastCall.stats.keep

\* wire, released by the quests Alpha and Beta once both are completed, is
\* not kept, and the snapshot can still advance (a project to complete)
C25_Witness ==
    /\ IsClassify
    /\ lastCall.item.id = WIRE
    /\ lastCall.verdict.decision \in Decisions \ {"keep"}
    /\ lastCall.userProgress.completedQuests = <<"q1", "q2">>
    /\ getDecision(this, lastCall.item, EmptyProgress).decision = "keep"
    /\ \E up2 \in ProgressAll :
          /\ Advances(lastCall.userProgress, up2)
          /\ up2 # lastCall.userProgress

(***************************************************************************)
(* C26: the verdict depends on progress only through steps 8-10.  An item   *)
(* that matches one of steps 1-7, and an item that no quest (requirement or *)
(* reward), no project (legacy list or phase) and no hideout level          *)
(* references, gets the identical verdict under every progress snapshot:    *)
(* the verdict of each call is the one under the empty snapshot, and the    *)
(* verdict under the empty snapshot is the one under every other snapshot.  *)
(***************************************************************************)
Unreferenced(id) ==
    /\ \A i \in 1..Len(quests) : ~QuestReferences(quests[i], id)
    /\ \A i \in 1..Len(projects) : ~ProjectReferences(projects[i], id)
    /\ \A i \in 1..Len(hideoutModules) :
          Has(hideoutModules[i], "levels") =>
              \A l \in 1..Len(hideoutModules[i].levels) :
                  ~LevelRequires(hideoutModules[i].levels[l], id)

MatchesTypeRules(item) ==
    \E k \in 1..7 : RuleHolds(k, this, item, EmptyProgress)

C26_ProgressOnlyThroughUsage ==
    ( /\ IsClassify
      /\ MatchesTypeRules(lastCall.item) \/ Unreferenced(lastCall.item.id) )
    => /\ lastCall.verdict = getDecision(this, lastCall.item, EmptyProgress)
       /\ lastCall.userProgress = EmptyProgress =>
              \A up2 \in ProgressAll :
                  getDecision(this, lastCall.item, up2) = lastCall.verdict

\* an item nothing references, classified past the usage rules under a
\* snapshot with open projects
C26_Witness ==
    /\ IsClassify
    /\ lastCall.item.id = REFINEMENT_1
    /\ Unreferenced(lastCall.item.id)
    /\ ~MatchesTypeRules(lastCall.item)
    /\ lastCall.userProgress.completedProjects = <<>>
    /\ StepOf(lastCall.verdict) >= 11

(***************************************************************************)
(* C27: a verdict carries a dependencies list iff step 8, 9 or 10 produced  *)
(* it; the list is then non-empty, the decision is keep, and the list holds *)
(* the names of one resolver only: quest names at step 8, project names at  *)
(* step 9, module level names at step 10.                                   *)
(***************************************************************************)
QuestNameSet == {Str(quests[i].name) : i \in 1..Len(quests)}
ProjectNameSet == {Str(projects[i].name) : i \in 1..Len(projects)}
ModuleNameSet == {hideoutModules[i].name : i \in 1..Len(hideoutModules)}

AllIn(seq, S) == \A i \in 1..Len(seq) : seq[i] \in S
AllLevelsOf(seq, S) == \A i \in 1..Len(seq) : seq[i].s \in S /\ Len(seq[i].lvl) = 1

C27_DependenciesFromOneResolver ==
    IsClassify =>
        LET v == lastCall.verdict
        IN  /\ Has(v, "dependencies") <=> StepOf(v) \in {8, 9, 10}
            /\ Has(v, "dependencies") =>
                  /\ Len(v.dependencies) > 0
                  /\ v.decision = "keep"
                  /\ StepOf(v) = 8 => AllIn(v.dependencies, QuestNameSet)
                  /\ StepOf(v) = 9 => AllIn(v.dependencies, ProjectNameSet)
                  /\ StepOf(v) = 10 => AllLevelsOf(v.dependencies, ModuleNameSet)

\* metal, which an open project and a pending Workbench level both need, is
\* kept with the project's name alone
C27_Witness ==
    /\ IsClassify
    /\ lastCall.item.id = METAL
    /\ StepOf(lastCall.verdict) = 9
    /\ isNeededForUpgrades(hideoutModules, lastCall.item, lastCall.userProgress).isNeeded
    /\ lastCall.verdict.dependencies = <<Str("Expedition")>>

(***************************************************************************)
(* C28: an item whose id is on the App's blacklist (refinement-1) is never  *)
(* in the App's item list allItems, after init and after any sequence of    *)
(* updateWorkshopLevel and updateQuestProgress calls.                       *)
(* Refuted by the first tick click: both handlers assign the engine's full  *)
(* list to allItems and do not filter it again.                             *)
(***************************************************************************)
Blacklisted(id) == InSeq(id, itemBlacklist)

C28_BlacklistedNeverListed ==
    \A i \in 1..Len(allItems) : ~Blacklisted(allItems[i].id)

(***************************************************************************)
(* C29: in a verdict of step 13 the value comparison of the reasons agrees  *)
(* with the values: a verdict whose reason says that the components are     *)
(* worth less than the item never carries recycleValueExceedsItem = true,   *)
(* and its components total is not greater than the item's value.           *)
(* Refuted by an item whose outputs are worth more than the item: the text  *)
(* of step 13 is fixed, whatever the two numbers are.                       *)
(***************************************************************************)
SaysWorthLess(verdict) ==
    \E i \in 1..Len(verdict.reasons) :
        verdict.reasons[i].text
            = "Recycle value: Components (N coins) worth less than Item (N coins)"

C29_ComparisonAgreesWithValues ==
    ( /\ IsClassify
      /\ StepOf(lastCall.verdict) = 13
      /\ SaysWorthLess(lastCall.verdict) )
    => /\ ~FlagSet(lastCall.verdict)
       /\ lastCall.verdict.reasons[2].nums[1] <= lastCall.verdict.reasons[2].nums[2]

(***************************************************************************)
(* C30: isWeaponVariant and getTierNumber agree on every id:                *)
(* isWeaponVariant(item) holds iff getTierNumber(item.id) is between 1 and  *)
(* 10, so every item that step 4 treats as a weapon variant has an id that  *)
(* ends in a valid Roman numeral I..X.                                      *)
(* Refuted by rifle_iiii and rifle_xx: the regular expression accepts any   *)
(* run of the letters i, v, x, the numeral table does not hold it.          *)
(***************************************************************************)
C30_VariantIffTier ==
    IsClassify =>
        LET item == lastCall.item
        IN  /\ isWeaponVariant(item) <=> getTierNumber(item.id) \in 1..10
            /\ ( /\ StepOf(lastCall.verdict) = 4
                 /\ item.type # WEAPON )
               => getTierNumber(item.id) \in 1..10

====
